---- MODULE Spec2Model ----
(***************************************************************************)
(* git-review: the backward history walk of gitreview.py (review) and      *)
(* stats.py (main), with the analysis tools' pure functions computed on    *)
(* the text of the output lines as the regular expressions compute them.  *)
(*                                                                         *)
(* Scores are kept in thousandths (7.50 is 7500), so that every float the  *)
(* program handles (two-decimal ratings, 10.0 - n/10.0, their differences  *)
(* and the 0.005 threshold) is an exact integer here.                      *)
(***************************************************************************)
EXTENDS Integers, Sequences, FiniteSets, TLC

VARIABLES
    prog,           \* "gitreview" (review) or "stats" (main)
    tool,           \* options.tool: "pylint" or "cppcheck"
    history,        \* the repository: commits c1..cn, oldest first
    head,           \* index of HEAD in history; the working tree is its tree
    iterations,     \* options.iterations / ITERATIONS
    i,              \* loop counter of the walk
    pc,             \* position of the walker
    author,         \* author of the iteration
    commit,         \* commit hash of the iteration (index in history)
    lines_changed,
    before_output,
    after_output,
    before_score,
    after_score,
    diff_errors,
    diff,           \* the score delta of the iteration
    stats,          \* author -> sequence of <<diff, lines_changed, diff_errors>>
    report,         \* what output_stats printed: author -> totals
    runs,           \* number of invocations of the analysis backend so far
    git_failed,     \* some git primitive has exited non-zero
    error           \* the exception that ended the program, or "none"

vars == <<prog, tool, history, head, iterations, i, pc, author, commit,
          lines_changed, before_output, after_output, before_score,
          after_score, diff_errors, diff, stats, report, runs, git_failed,
          error>>

-----------------------------------------------------------------------------
(* Bounds of the model *)

MaxCommits == 3
MaxIterations == 2
MaxLines == 2

(* Constants of the program, in thousandths where they are scores *)

ITERATIONS == 100
Sentinel == -100000
Epsilon == 5
CppcheckTop == 10000
CppcheckPerLine == 100

-----------------------------------------------------------------------------
(* Text: Python's str and re on one line *)

Max(S) == CHOOSE x \in S : \A y \in S : y <= x

Digit == {"0", "1", "2", "3", "4", "5", "6", "7", "8", "9"}
Whitespace == {" ", "\t"}

\* the character at k, "" past either end
Char(s, k) == IF k >= 1 /\ k <= Len(s) THEN SubSeq(s, k, k) ELSE ""

\* the literal lit occupies s[p .. p+len-1]
LitAt(s, p, lit) ==
    /\ p >= 1
    /\ p + Len(lit) - 1 <= Len(s)
    /\ SubSeq(s, p, p + Len(lit) - 1) = lit

\* lit in s
Contains(s, lit) == \E p \in 1..Len(s) : LitAt(s, p, lit)

\* str.lstrip(), str.rstrip() and str.strip()
RECURSIVE lstrip(_)
lstrip(s) ==
    IF Len(s) > 0 /\ Char(s, 1) \in Whitespace
    THEN lstrip(SubSeq(s, 2, Len(s)))
    ELSE s

RECURSIVE rstrip(_)
rstrip(s) ==
    IF Len(s) > 0 /\ Char(s, Len(s)) \in Whitespace
    THEN rstrip(SubSeq(s, 1, Len(s) - 1))
    ELSE s

strip(s) == rstrip(lstrip(s))

DigitValue(c) ==
    CASE c = "0" -> 0 [] c = "1" -> 1 [] c = "2" -> 2 [] c = "3" -> 3
      [] c = "4" -> 4 [] c = "5" -> 5 [] c = "6" -> 6 [] c = "7" -> 7
      [] c = "8" -> 8 [] c = "9" -> 9

\* int(s) of a non-empty run of digits
RECURSIVE int(_)
int(s) ==
    IF Len(s) = 0 THEN 0
    ELSE 10 * int(SubSeq(s, 1, Len(s) - 1)) + DigitValue(Char(s, Len(s)))

\* float(s) of the text d.dd, in thousandths
float(s) ==
    1000 * DigitValue(Char(s, 1)) + 100 * DigitValue(Char(s, 3))
        + 10 * DigitValue(Char(s, 4))

\* [line for line in text.split('\n') if line.strip()]
NonBlank(lines) == SelectSeq(lines, LAMBDA line : strip(line) # "")

\* [line.strip() for line in text.split('\n') if line.strip()]
StrippedNonBlank(lines) ==
    LET kept == NonBlank(lines)
    IN  [k \in 1..Len(kept) |-> strip(kept[k])]

\* collections.Counter(xs): name -> occurrences
RECURSIVE Counter(_)
Counter(xs) ==
    IF Len(xs) = 0 THEN <<>>
    ELSE LET c == Counter(SubSeq(xs, 1, Len(xs) - 1))
             x == xs[Len(xs)]
         IN  IF x \in DOMAIN c THEN [c EXCEPT ![x] = @ + 1]
             ELSE c @@ (x :> 1)

-----------------------------------------------------------------------------
(* Score extraction *)

\* where \d\.\d\d/10 matches in the line
RatingAt(line, p) ==
    /\ p + 6 <= Len(line)
    /\ Char(line, p) \in Digit
    /\ Char(line, p + 1) = "."
    /\ Char(line, p + 2) \in Digit
    /\ Char(line, p + 3) \in Digit
    /\ LitAt(line, p + 4, "/10")

\* re.match(r'.*(\d\.\d\d)/10.*', line): the greedy .* leaves the group at
\* the rightmost place the rest of the pattern matches
RatingGroup(line) ==
    LET at == {p \in 1..Len(line) : RatingAt(line, p)}
    IN  IF at = {} THEN "" ELSE SubSeq(line, Max(at), Max(at) + 3)

\* the value returned, or the exception raised by output[-1]
ScoreOfLastLine(output) ==
    IF Len(output) = 0 THEN [exc |-> "IndexError", value |-> 0]
    ELSE LET group == RatingGroup(output[Len(output)])
         IN  [exc |-> "none",
              value |-> IF group # "" THEN float(group) ELSE Sentinel]

Pylint_get_score(output) == ScoreOfLastLine(output)

get_pylint_score(output) == ScoreOfLastLine(output)

Cppcheck_get_score(output) ==
    [exc |-> "none", value |-> CppcheckTop - CppcheckPerLine * Len(output)]

-----------------------------------------------------------------------------
(* Rule identifiers of the finding lines *)

\* re.match(r'.*\((.+)\)$', line.strip()): the stripped line ends with ")",
\* and the greedy .* leaves the group after the rightmost "(" that still has
\* a character before the closing one; "" when there is no match
PylintRuleGroup(line) ==
    LET s == strip(line)
        open == {p \in 1..(Len(s) - 2) : Char(s, p) = "("}
    IN  IF Len(s) >= 3 /\ Char(s, Len(s)) = ")" /\ open # {}
        THEN SubSeq(s, Max(open) + 1, Len(s) - 1)
        ELSE ""

\* Analysis_Pylint._get_errors, and the two loops of match_pylint_errors
RECURSIVE Pylint_get_errors(_)
Pylint_get_errors(output) ==
    IF Len(output) = 0 THEN <<>>
    ELSE LET line == output[Len(output)]
             rest == Pylint_get_errors(SubSeq(output, 1, Len(output) - 1))
         IN  IF PylintRuleGroup(line) # "" /\ ~Contains(line, "previous run")
             THEN Append(rest, PylintRuleGroup(line))
             ELSE rest

\* re.match(r'.*\d\]: \((.+)\) ', line.strip()): the rightmost "d]: (" that
\* has a ") " after at least one character, and the group runs to the
\* rightmost such ") "; "" when there is no match
CppcheckRuleGroup(line) ==
    LET s == strip(line)
        close(p) == {q \in (p + 6)..Len(s) : LitAt(s, q, ") ")}
        open == {p \in 1..Len(s) :
                    /\ Char(s, p) \in Digit
                    /\ LitAt(s, p + 1, "]: (")
                    /\ close(p) # {}}
    IN  IF open = {} THEN ""
        ELSE SubSeq(s, Max(open) + 5, Max(close(Max(open))) - 1)

RECURSIVE Cppcheck_get_errors(_)
Cppcheck_get_errors(output) ==
    IF Len(output) = 0 THEN <<>>
    ELSE LET line == output[Len(output)]
             rest == Cppcheck_get_errors(SubSeq(output, 1, Len(output) - 1))
         IN  IF CppcheckRuleGroup(line) # ""
             THEN Append(rest, CppcheckRuleGroup(line))
             ELSE rest

\* AfterMinusBefore without `if diff != 0`
AfterMinusBefore_KeepsZero(before_errors, after_errors) ==
    [name \in DOMAIN after_errors |->
        IF name \notin DOMAIN before_errors THEN after_errors[name]
        ELSE after_errors[name] - before_errors[name]]

\* the loop over after_errors shared by the three implementations
AfterMinusBefore(before_errors, after_errors) ==
    LET d(name) == IF name \notin DOMAIN before_errors
                   THEN after_errors[name]
                   ELSE after_errors[name] - before_errors[name]
    IN  [name \in {n \in DOMAIN after_errors : d(n) # 0} |-> d(name)]

\* DisappearedRules without the second loop
DisappearedRules_None(before_errors, after_errors, found) == <<>>

\* the second loop of Analysis_Pylint.match_errors, over before_errors
DisappearedRules(before_errors, after_errors, found) ==
    [name \in {n \in DOMAIN before_errors :
                  n \notin DOMAIN found /\ n \notin DOMAIN after_errors}
        |-> 0 - before_errors[name]]

Pylint_match_errors(before, after) ==
    LET before_errors == Counter(Pylint_get_errors(before))
        after_errors == Counter(Pylint_get_errors(after))
        found == AfterMinusBefore(before_errors, after_errors)
    IN  found @@ DisappearedRules(before_errors, after_errors, found)

Cppcheck_match_errors(before, after) ==
    AfterMinusBefore(Counter(Cppcheck_get_errors(before)),
                     Counter(Cppcheck_get_errors(after)))

match_pylint_errors(before, after) ==
    AfterMinusBefore(Counter(Pylint_get_errors(before)),
                     Counter(Pylint_get_errors(after)))

-----------------------------------------------------------------------------
(* Change statistics *)

\* re.match(r'.*\.py\s', line)
Pylint_relevant_line(line) ==
    \E p \in 1..Len(line) :
        LitAt(line, p, ".py") /\ Char(line, p + 3) \in Whitespace

\* re.match(r'.*\.cpp\s', line) or re.match(r'.*\.hpp\s', line)
Cppcheck_relevant_line(line) ==
    \/ \E p \in 1..Len(line) :
          LitAt(line, p, ".cpp") /\ Char(line, p + 4) \in Whitespace
    \/ \E p \in 1..Len(line) :
          LitAt(line, p, ".hpp") /\ Char(line, p + 4) \in Whitespace

\* the last index of the run of digits that starts at p (p - 1: no digit)
DigitRunEnd(s, p) ==
    Max({e \in (p - 1)..Len(s) : \A k \in p..e : Char(s, k) \in Digit})

\* re.match(r'.*\s\|\s(\d+)\s', line): the group at the rightmost " | "
\* followed by digits and a whitespace; "" when there is no match
ChangeCountGroup(line) ==
    LET at == {p \in 1..Len(line) :
                  /\ Char(line, p) \in Whitespace
                  /\ Char(line, p + 1) = "|"
                  /\ Char(line, p + 2) \in Whitespace
                  /\ DigitRunEnd(line, p + 3) >= p + 3
                  /\ Char(line, DigitRunEnd(line, p + 3) + 1) \in Whitespace}
    IN  IF at = {} THEN ""
        ELSE SubSeq(line, Max(at) + 3, DigitRunEnd(line, Max(at) + 3))

relevant_line(t, line) ==
    IF t = "pylint" THEN Pylint_relevant_line(line)
    ELSE Cppcheck_relevant_line(line)

\* check_stats(diff, tool) of gitreview.py; stats.py's loop with t = "pylint"
RECURSIVE check_stats(_, _)
check_stats(difflines, t) ==
    IF Len(difflines) = 0 THEN 0
    ELSE LET line == difflines[Len(difflines)]
             total == check_stats(SubSeq(difflines, 1, Len(difflines) - 1), t)
         IN  IF relevant_line(t, line) /\ ChangeCountGroup(line) # ""
             THEN total + int(ChangeCountGroup(line))
             ELSE total

-----------------------------------------------------------------------------
(* The repository and the two external programs, git and the backend *)

Authors == {"Alice", "Bob"}

\* versions of the watched files' contents
Trees == {"t1", "t2", "t3"}

\* change-statistics reports a commit can have against its parent
StatReports == {"docs", "sources"}

Commits == [author : Authors, tree : Trees, stat : StatReports]

\* c1..cn, oldest first. The root commit has no parent: its report is never
\* read, and the iteration that reads its author ends at git diff or git
\* reset before anything is recorded, so both are fixed
Histories ==
    UNION {{h \in [1..n -> Commits] :
               h[1].stat = "docs" /\ h[1].author = "Alice"} : n \in 1..MaxCommits}

\* what the backend prints on a tree, split at the newlines
BackendOutput(t, tree) ==
    IF t = "pylint" THEN
        CASE tree = "t1" ->
               <<"************* Module a",
                 "a.py:1: Unused variable 'x' (unused-variable)",
                 "",
                 "Your code has been rated at 7.50/10",
                 "">>
          [] tree = "t2" ->
               <<"************* Module a",
                 "a.py:1: Unused variable 'x' (unused-variable)",
                 "a.py:2: Unused variable 'y' (unused-variable)",
                 "",
                 "Your code has been rated at 5.00/10",
                 "">>
          [] tree = "t3" -> <<"">>
    ELSE
        CASE tree = "t1" -> <<"Checking x.cpp ...", "">>
          [] tree = "t2" ->
               <<"Checking x.cpp ...",
                 "[x.cpp:3]: (style) Unused variable: a",
                 "">>
          [] tree = "t3" ->
               <<"Checking x.cpp ...",
                 "[x.cpp:3]: (style) Unused variable: a",
                 "[x.cpp:9]: (error) Null pointer dereference: p",
                 "">>

\* what git diff HEAD HEAD~1 --stat prints, split at the newlines
GitDiffStat(stat) ==
    CASE stat = "docs" ->
           <<" README.md | 5 +++++",
             " 1 file changed, 5 insertions(+)",
             "">>
      [] stat = "sources" ->
           <<" a.py      | 2 +-",
             " lib/b.py  | 1 +",
             " x.cpp     | 2 ++",
             " 3 files changed, 4 insertions(+), 1 deletion(-)",
             "">>

\* what git prints when HEAD~1 cannot be resolved
GitDiffError ==
    <<"fatal: ambiguous argument 'HEAD~1': unknown revision or path not in the working tree.",
      "">>

\* tool.run() / run_pylint() on the working tree
run(t, tree) == NonBlank(BackendOutput(t, tree))

get_score(p, t, output) ==
    IF p = "stats" THEN get_pylint_score(output)
    ELSE IF t = "pylint" THEN Pylint_get_score(output)
    ELSE Cppcheck_get_score(output)

match_errors(p, t, before, after) ==
    IF p = "stats" THEN match_pylint_errors(before, after)
    ELSE IF t = "pylint" THEN Pylint_match_errors(before, after)
    ELSE Cppcheck_match_errors(before, after)

-----------------------------------------------------------------------------
(* The decisions of the loop body *)

Abs(x) == IF x < 0 THEN 0 - x ELSE x

\* if lines_changed >= 0:
NeedsAnalysis_Always(lc) == lc >= 0

\* if lines_changed > 2:
NeedsAnalysis_AboveTwo(lc) == lc > 2

\* if lines_changed > 0:
NeedsAnalysis(lc) == lc > 0

\* diff = before_score - after_score
ScoreDelta_Reversed(after, before) == before - after

\* diff = after_score - before_score
ScoreDelta(after, before) == after - before

\* if lines_changed < 0: continue
review_skips_Negative(d, lc) == lc < 0

\* if lines_changed <= 0: continue
review_skips(d, lc) == lc <= 0

\* if abs(diff) < 0.005 or lines_changed == 0: continue
main_skips(d, lc) == Abs(d) < Epsilon \/ lc = 0

Skips(p, d, lc) == IF p = "stats" THEN main_skips(d, lc) ELSE review_skips(d, lc)

\* whether the call raises CalledProcessError on a non-zero exit (check=True)
Checked(p, call) == ~(p = "stats" /\ call = "diff")

-----------------------------------------------------------------------------
(* The report *)

RECURSIVE SumOf(_, _)
SumOf(results, field) ==
    IF Len(results) = 0 THEN 0
    ELSE SumOf(SubSeq(results, 1, Len(results) - 1), field)
            + results[Len(results)][field]

assemble_errors(errors) ==
    LET names == UNION {DOMAIN errors[k] : k \in 1..Len(errors)}
        having(name) == SelectSeq(errors, LAMBDA e : name \in DOMAIN e)
    IN  [name \in names |->
            [k \in 1..Len(having(name)) |-> having(name)[k][name]]]

\* the rows output_stats prints; score / changes is kept as the pair
output_stats(st) ==
    [a \in DOMAIN st |->
        [score |-> SumOf(st[a], 1),
         changes |-> SumOf(st[a], 2),
         errors |-> assemble_errors([k \in 1..Len(st[a]) |-> st[a][k][3]])]]

\* score / changes raises ZeroDivisionError
output_stats_raises(st) == \E a \in DOMAIN st : SumOf(st[a], 2) = 0

-----------------------------------------------------------------------------
(* The walk *)

config == <<prog, tool, history, iterations>>
iteration == <<author, commit, lines_changed>>
snapshots == <<before_output, after_output, before_score, after_score,
               diff_errors>>

Init ==
    /\ prog \in {"gitreview", "stats"}
    /\ tool \in (IF prog = "stats" THEN {"pylint"} ELSE {"pylint", "cppcheck"})
    /\ history \in Histories
    /\ head = Len(history)
    /\ iterations \in (IF prog = "stats" THEN {ITERATIONS} ELSE 0..MaxIterations)
    /\ i = 0
    /\ pc = "baseline"
    /\ author = ""
    /\ commit = 0
    /\ lines_changed = 0
    /\ before_output = <<>>
    /\ after_output = <<>>
    /\ before_score = 0
    /\ after_score = 0
    /\ diff_errors = <<>>
    /\ diff = 0
    /\ stats = <<>>
    /\ report = <<>>
    /\ runs = 0
    /\ git_failed = FALSE
    /\ error = "none"

\* after_output = before_output = tool.run()
\* after_score = before_score = tool.get_score(after_output)
Baseline ==
    /\ pc = "baseline"
    /\ LET output == run(tool, history[head].tree)
           score == get_score(prog, tool, output)
       IN  /\ runs' = runs + 1
           /\ before_output' = output
           /\ after_output' = output
           /\ IF score.exc # "none"
              THEN /\ pc' = "aborted"
                   /\ error' = score.exc
                   /\ UNCHANGED <<before_score, after_score>>
              ELSE /\ pc' = IF 0 < iterations THEN "author" ELSE "report"
                   /\ before_score' = score.value
                   /\ after_score' = score.value
                   /\ error' = error
    /\ UNCHANGED <<config, head, i, iteration, diff_errors, diff, stats,
                   report, git_failed>>

\* a git primitive exits non-zero and subprocess.run(check=True) raises
GitAbort ==
    /\ git_failed' = TRUE
    /\ pc' = "aborted"
    /\ error' = "CalledProcessError"

\* author = git log -1 --pretty=format:'%an'
GitAuthor ==
    /\ pc = "author"
    /\ \/ /\ author' = history[head].author
          /\ pc' = "hash"
          /\ UNCHANGED <<git_failed, error>>
       \/ /\ GitAbort
          /\ author' = author
    /\ UNCHANGED <<config, head, i, commit, lines_changed, snapshots, diff,
                   stats, report, runs>>

\* commit = git rev-parse HEAD
GitHash ==
    /\ pc = "hash"
    /\ \/ /\ commit' = head
          /\ pc' = "diff"
          /\ UNCHANGED <<git_failed, error>>
       \/ /\ GitAbort
          /\ commit' = commit
    /\ UNCHANGED <<config, head, i, author, lines_changed, snapshots, diff,
                   stats, report, runs>>

\* lines_changed = check_stats(git diff HEAD HEAD~1 --stat); the command
\* fails when HEAD has no parent
GitDiff ==
    /\ pc = "diff"
    /\ \/ /\ head > 1
          /\ lines_changed' =
                check_stats(StrippedNonBlank(GitDiffStat(history[head].stat)),
                            tool)
          /\ pc' = "reset"
          /\ UNCHANGED <<git_failed, error>>
       \/ /\ Checked(prog, "diff")
          /\ GitAbort
          /\ lines_changed' = lines_changed
       \/ /\ ~Checked(prog, "diff")
          /\ git_failed' = TRUE
          /\ lines_changed' = check_stats(StrippedNonBlank(GitDiffError), tool)
          /\ pc' = "reset"
          /\ error' = error
    /\ UNCHANGED <<config, head, i, author, commit, snapshots, diff, stats,
                   report, runs>>

\* git reset --hard HEAD~1; fails when HEAD has no parent
GitReset ==
    /\ pc = "reset"
    /\ \/ /\ head > 1
          /\ head' = head - 1
          /\ pc' = "analyze"
          /\ UNCHANGED <<git_failed, error>>
       \/ /\ GitAbort
          /\ head' = head
    /\ UNCHANGED <<config, i, iteration, snapshots, diff, stats, report, runs>>

\* if lines_changed > 0: before_output = tool.run(); before_score = ...;
\* diff_errors = tool.match_errors(before_output, after_output)
Analyze ==
    /\ pc = "analyze"
    /\ IF NeedsAnalysis(lines_changed)
       THEN LET output == run(tool, history[head].tree)
                score == get_score(prog, tool, output)
            IN  /\ runs' = runs + 1
                /\ before_output' = output
                /\ IF score.exc # "none"
                   THEN /\ pc' = "aborted"
                        /\ error' = score.exc
                        /\ UNCHANGED <<before_score, diff_errors>>
                   ELSE /\ pc' = "shift"
                        /\ before_score' = score.value
                        /\ diff_errors' =
                              match_errors(prog, tool, output, after_output)
                        /\ error' = error
       ELSE /\ pc' = "shift"
            /\ UNCHANGED <<runs, before_output, before_score, diff_errors,
                           error>>
    /\ UNCHANGED <<config, head, i, iteration, after_output, after_score,
                   diff, stats, report, git_failed>>

\* diff = after_score - before_score
\* after_output = before_output; after_score = before_score
Shift ==
    /\ pc = "shift"
    /\ diff' = ScoreDelta(after_score, before_score)
    /\ after_output' = before_output
    /\ after_score' = before_score
    /\ pc' = "record"
    /\ UNCHANGED <<config, head, i, iteration, before_output, before_score,
                   diff_errors, stats, report, runs, git_failed, error>>

\* continue, or append new_data to stats[author]; then the next iteration
Record ==
    /\ pc = "record"
    /\ stats' =
          IF Skips(prog, diff, lines_changed) THEN stats
          ELSE LET new_data == <<diff, lines_changed, diff_errors>>
               IN  IF author \in DOMAIN stats
                   THEN [stats EXCEPT ![author] = Append(@, new_data)]
                   ELSE stats @@ (author :> <<new_data>>)
    /\ i' = i + 1
    /\ pc' = IF i + 1 < iterations THEN "author" ELSE "report"
    /\ UNCHANGED <<config, head, iteration, snapshots, diff, report, runs,
                   git_failed, error>>

\* output_stats(stats)
Report ==
    /\ pc = "report"
    /\ IF output_stats_raises(stats)
       THEN /\ pc' = "aborted"
            /\ error' = "ZeroDivisionError"
            /\ report' = report
       ELSE /\ pc' = "done"
            /\ report' = output_stats(stats)
            /\ error' = error
    /\ UNCHANGED <<config, head, i, iteration, snapshots, diff, stats, runs,
                   git_failed>>

Next ==
    \/ Baseline
    \/ GitAuthor
    \/ GitHash
    \/ GitDiff
    \/ GitReset
    \/ Analyze
    \/ Shift
    \/ Record
    \/ Report

Spec == Init /\ [][Next]_vars

-----------------------------------------------------------------------------
(* The score functions alone, on bounded snapshots *)

DigitChar(d) == SubSeq("0123456789", d + 1, d + 1)

\* "{0:.2f}".format(v) of a rating from 0.00 to 10.00, v in thousandths
FormatRating(v) ==
    (IF v >= 10000 THEN "1" ELSE "") \o DigitChar((v \div 1000) % 10) \o "."
        \o DigitChar((v \div 100) % 10) \o DigitChar((v \div 10) % 10)

Ratings == {0, 5000, 7500, 9990, 10000}

Suffixes == {"", " (previous run: 6.00/10, +1.50)"}

RatedLine(v, suffix) ==
    "Your code has been rated at " \o FormatRating(v) \o "/10" \o suffix

UnratedLines ==
    {"************* Module a",
     "a.py:1: Unused variable 'x' (unused-variable)",
     "sh: 1: pylint: not found"}

ScoreLines ==
    {RatedLine(v, suffix) : v \in Ratings, suffix \in Suffixes}
        \cup UnratedLines

SnapshotsOf(lines) == UNION {[1..n -> lines] : n \in 0..MaxLines}

\* the variables of the walk that a call of one function leaves alone
NoWalk ==
    /\ history = <<>>
    /\ head = 0
    /\ iterations = 0
    /\ i = 0
    /\ author = ""
    /\ commit = 0
    /\ lines_changed = 0
    /\ diff = 0
    /\ stats = <<>>
    /\ report = <<>>
    /\ runs = 0
    /\ git_failed = FALSE
    /\ error = "none"

walk == <<history, head, iterations, i, author, commit, lines_changed, diff,
          stats, report, runs, git_failed>>

InitScore ==
    /\ pc = "score"
    /\ prog = "gitreview"
    /\ tool = "pylint"
    /\ before_output \in SnapshotsOf(ScoreLines)
    /\ after_output = <<>>
    /\ before_score = 0
    /\ after_score = 0
    /\ diff_errors = <<>>
    /\ NoWalk

\* before_score = get_score(before_output) by the function of p and t
Score(p, t) ==
    /\ pc = "score"
    /\ prog' = p
    /\ tool' = t
    /\ LET score == get_score(p, t, before_output)
       IN  /\ error' = score.exc
           /\ before_score' = IF score.exc = "none" THEN score.value
                              ELSE before_score
    /\ pc' = "scored"
    /\ UNCHANGED <<walk, before_output, after_output, after_score,
                   diff_errors>>

ScorePylint == Score("gitreview", "pylint")

ScoreCppcheck == Score("gitreview", "cppcheck")

ScoreStats == Score("stats", "pylint")

NextScore ==
    \/ ScorePylint
    \/ ScoreCppcheck
    \/ ScoreStats

SpecScore == InitScore /\ [][NextScore]_vars

-----------------------------------------------------------------------------
(* The error deltas alone, on bounded pairs of snapshots *)

ErrorLines ==
    {"a.py:1: W0612 (unused-variable)",
     "a.py:3: C0111 (missing-docstring) ",
     "Your code has been rated at 7.50/10 (previous run: 6.00/10, +1.50)",
     "[x.cpp:3]: (style) Unused variable (a)"}

InitErrors ==
    /\ pc = "match"
    /\ prog = "gitreview"
    /\ tool = "pylint"
    /\ before_output \in SnapshotsOf(ErrorLines)
    /\ after_output \in SnapshotsOf(ErrorLines)
    /\ before_score = 0
    /\ after_score = 0
    /\ diff_errors = <<>>
    /\ NoWalk

\* diff_errors = match_errors(before_output, after_output) by the function
\* of p and t
Match(p, t) ==
    /\ pc = "match"
    /\ prog' = p
    /\ tool' = t
    /\ diff_errors' = match_errors(p, t, before_output, after_output)
    /\ pc' = "matched"
    /\ UNCHANGED <<walk, error, before_output, after_output, before_score,
                   after_score>>

MatchPylint == Match("gitreview", "pylint")

MatchCppcheck == Match("gitreview", "cppcheck")

MatchStats == Match("stats", "pylint")

NextErrors ==
    \/ MatchPylint
    \/ MatchCppcheck
    \/ MatchStats

SpecErrors == InitErrors /\ [][NextErrors]_vars

-----------------------------------------------------------------------------
(* Claims about the score functions (SpecScore) *)

LastLine(output) == output[Len(output)]

HasRating(line) == \E p \in 1..Len(line) : RatingAt(line, p)

\* C5: for every snapshot run() can return, the empty one included, the
\* pylint get_score (gitreview.py and stats.py) returns a number without
\* raising, and the sentinel -100.0 when the last line holds no X.XX/10.
C5_ScoreNeverRaises ==
    (pc = "scored" /\ tool = "pylint") =>
        /\ error = "none"
        /\ (Len(before_output) > 0 /\ ~HasRating(LastLine(before_output)))
              => before_score = Sentinel

\* C7: when the last line is "Your code has been rated at S/10" followed by
\* any suffix, S from 0.00 to 10.00, the pylint get_score returns exactly S;
\* when the last line holds no d.dd/10 it returns -100.0.
C7_RatedLineGivesRating ==
    (pc = "scored" /\ tool = "pylint" /\ Len(before_output) > 0) =>
        /\ \A v \in Ratings, suffix \in Suffixes :
              LastLine(before_output) = RatedLine(v, suffix)
                  => (error = "none" /\ before_score = v)
        /\ ~HasRating(LastLine(before_output)) => before_score = Sentinel

-----------------------------------------------------------------------------
(* Claims about the error deltas (SpecErrors) *)

\* the rule identifiers the variant in use extracts from a snapshot
RulesOf(p, t, output) ==
    IF p = "gitreview" /\ t = "cppcheck" THEN Cppcheck_get_errors(output)
    ELSE Pylint_get_errors(output)

Occurrences(rule, rules) == Cardinality({k \in 1..Len(rules) : rules[k] = rule})

Named(rules) == {rules[k] : k \in 1..Len(rules)}

\* the entry of a mapping, 0 when it has none
Entry(mapping, rule) == IF rule \in DOMAIN mapping THEN mapping[rule] ELSE 0

\* C6: in each of the three implementations no entry of the error delta is
\* 0, and every rule r found in `after` is mapped to
\* count_after(r) - count_before(r) when that is non-zero and has no entry
\* when it is zero.
C6_DeltaOfAfterRules ==
    pc = "matched" =>
        LET before_rules == RulesOf(prog, tool, before_output)
            after_rules == RulesOf(prog, tool, after_output)
        IN  /\ \A r \in DOMAIN diff_errors : diff_errors[r] # 0
            /\ \A r \in Named(after_rules) :
                  LET d == Occurrences(r, after_rules)
                              - Occurrences(r, before_rules)
                  IN  IF d # 0
                      THEN r \in DOMAIN diff_errors /\ diff_errors[r] = d
                      ELSE r \notin DOMAIN diff_errors

\* C6 witness: one unused-variable finding before and two after give 1
C6_Witness ==
    /\ pc = "matched"
    /\ Occurrences("unused-variable", RulesOf(prog, tool, before_output)) = 1
    /\ Occurrences("unused-variable", RulesOf(prog, tool, after_output)) = 2
    /\ diff_errors = ("unused-variable" :> 1)

\* C8: for a rule r of `before` found in no line of `after`,
\* Analysis_Pylint.match_errors has the entry r -> -count_before(r) and the
\* other two implementations have none; so Analysis_Pylint.match_errors is
\* the signed count difference over the rules of both snapshots and
\* match_errors(a, b)[r] = -match_errors(b, a)[r], which fails for r in the
\* other two.
C8_DisappearedRulePolicy ==
    pc = "matched" =>
        LET before_rules == RulesOf(prog, tool, before_output)
            after_rules == RulesOf(prog, tool, after_output)
            swapped == match_errors(prog, tool, after_output, before_output)
            gone == Named(before_rules) \ Named(after_rules)
        IN  IF prog = "gitreview" /\ tool = "pylint"
            THEN /\ \A r \in gone :
                       /\ r \in DOMAIN diff_errors
                       /\ diff_errors[r] = 0 - Occurrences(r, before_rules)
                 /\ DOMAIN diff_errors
                       \subseteq Named(before_rules) \cup Named(after_rules)
                 /\ \A r \in Named(before_rules) \cup Named(after_rules) :
                       /\ Entry(diff_errors, r) =
                             Occurrences(r, after_rules)
                                - Occurrences(r, before_rules)
                       /\ Entry(diff_errors, r) = 0 - Entry(swapped, r)
            ELSE \A r \in gone :
                       /\ r \notin DOMAIN diff_errors
                       /\ Entry(diff_errors, r) # 0 - Entry(swapped, r)

\* C8 witness: Analysis_Pylint.match_errors reports a rule that disappeared
C8_Witness ==
    /\ pc = "matched"
    /\ prog = "gitreview"
    /\ tool = "pylint"
    /\ \E r \in DOMAIN diff_errors :
          /\ diff_errors[r] < 0
          /\ r \notin Named(Pylint_get_errors(after_output))

-----------------------------------------------------------------------------
(* Claims about the walk (Spec) *)

InIteration ==
    pc \in {"author", "hash", "diff", "reset", "analyze", "shift", "record"}

\* the analysis of every tree, its score, the error delta between every two
\* trees and the count of every report, by the functions of each variant
Variants == {<<"gitreview", "pylint">>, <<"gitreview", "cppcheck">>,
             <<"stats", "pylint">>}

FreshOutput == [v \in Variants |-> [tree \in Trees |-> run(v[2], tree)]]

FreshScore ==
    [v \in Variants |->
        [tree \in Trees |-> get_score(v[1], v[2], FreshOutput[v][tree])]]

FreshDelta ==
    [v \in Variants |->
        [parent \in Trees |->
            [child \in Trees |->
                match_errors(v[1], v[2], FreshOutput[v][parent],
                             FreshOutput[v][child])]]]

FreshRules ==
    [v \in Variants |->
        [tree \in Trees |-> RulesOf(v[1], v[2], FreshOutput[v][tree])]]

CountedLines ==
    [v \in Variants |->
        [stat \in StatReports |->
            check_stats(StrippedNonBlank(GitDiffStat(stat)), v[2])]]

\* the analysis of commit k, and its score
OutputOf(k) == FreshOutput[<<prog, tool>>][history[k].tree]

ScoreOf(k) == FreshScore[<<prog, tool>>][history[k].tree].value

RulesOfCommit(k) == FreshRules[<<prog, tool>>][history[k].tree]

\* what check_stats counts for commit k against its parent
LinesChangedOf(k) == CountedLines[<<prog, tool>>][history[k].stat]

\* C1: in an iteration whose lines_changed is 0 the backend is not run, and
\* the before snapshot, the before score and the retained error delta end
\* the iteration as the previous iteration (or the baseline) left them: no
\* step of an iteration changes them before lines_changed is known, and none
\* after it when it is 0.
C1_NothingChangedNothingRerun ==
    [][(InIteration /\ (pc \in {"author", "hash", "diff"} \/ lines_changed = 0))
          => UNCHANGED <<before_output, before_score, diff_errors, runs>>]_vars

\* C1 witness: the second iteration ends with lines_changed = 0 after a
\* first one that ran the backend, the delta of the first still retained
C1_Witness ==
    /\ pc = "record"
    /\ i = 1
    /\ lines_changed = 0
    /\ runs = 2
    /\ diff_errors # <<>>

\* the history of C2: c1 <- c2 (Alice) <- c3 (Bob), c2 and c3 change a
\* watched file, c2 adds one finding and c3 removes it again
FixedByTheNextCommit ==
    /\ Len(history) = 3
    /\ history[2].author = "Alice"
    /\ history[3].author = "Bob"
    /\ LinesChangedOf(2) > 0
    /\ LinesChangedOf(3) > 0
    /\ Len(RulesOfCommit(2)) = Len(RulesOfCommit(1)) + 1
    /\ OutputOf(3) = OutputOf(1)

BobThenAlice ==
    /\ DOMAIN stats = {"Alice", "Bob"}
    /\ Len(stats["Alice"]) = 1
    /\ Len(stats["Bob"]) = 1
    /\ DOMAIN report = {"Alice", "Bob"}
    /\ report["Alice"].score < 0
    /\ report["Bob"].score > 0
    /\ report["Alice"].score + report["Bob"].score = 0

C3_StoredStepsAreSignificant ==
    prog = "gitreview" =>
        \A a \in DOMAIN stats : \A k \in 1..Len(stats[a]) :
            stats[a][k][2] > 0 /\ Abs(stats[a][k][1]) >= Epsilon

\* C4: in both walkers, once a git primitive has exited non-zero the walk
\* has aborted at that call: nothing runs after it, nothing is recorded and
\* no report is produced.
C4_GitFailureAborts == git_failed => (pc = "aborted" /\ report = <<>>)

\* C9: every author of stats has at least one step, every stored step has
\* lines_changed >= 1, so the divisor of score / changes is positive and
\* output_stats never divides by zero.
C9_NoDivisionByZero ==
    /\ \A a \in DOMAIN stats :
          /\ Len(stats[a]) >= 1
          /\ \A k \in 1..Len(stats[a]) : stats[a][k][2] >= 1
          /\ SumOf(stats[a], 2) > 0
    /\ error # "ZeroDivisionError"
    /\ \A a \in DOMAIN report : report[a].changes > 0

\* C9 witness: the report was printed for an author with two steps
C9_Witness ==
    /\ pc = "done"
    /\ \E a \in DOMAIN report : Len(stats[a]) = 2 /\ report[a].changes >= 2

\* check_stats is positive for every commit that changes the watched files
WatchedChangesCounted ==
    \A k \in 2..Len(history) :
        history[k].tree # history[k - 1].tree => LinesChangedOf(k) > 0

\* C10: when check_stats is positive for every commit that changes a
\* watched file (the analysis being a function of the tree), review() starts
\* every iteration with after_output/after_score those of a fresh analysis
\* of the checked-out commit and ends it with after = before; a step for
\* commit c carries score(c) - score(parent of c) and
\* match_errors(analysis of the parent, analysis of c); an iteration with
\* lines_changed = 0 has score delta 0.
C10_MemoizedSnapshotIsFresh ==
    (/\ prog = "gitreview"
     /\ pc \in {"author", "record"}
     /\ WatchedChangesCounted) =>
        /\ pc = "author" =>
              /\ after_output = OutputOf(head)
              /\ after_score = ScoreOf(head)
        /\ pc = "record" =>
              /\ after_output = before_output
              /\ after_score = before_score
              /\ after_output = OutputOf(head)
              /\ lines_changed = 0 => diff = 0
              /\ lines_changed > 0 =>
                    /\ diff = ScoreOf(commit) - ScoreOf(head)
                    /\ diff_errors =
                          FreshDelta[<<prog, tool>>][history[head].tree]
                                    [history[commit].tree]

\* C10 witness: the second iteration scores a commit that changed the
\* findings after an iteration that skipped a commit of documentation only
C10_Witness ==
    /\ prog = "gitreview"
    /\ pc = "record"
    /\ i = 1
    /\ WatchedChangesCounted
    /\ history[commit + 1].stat = "docs"
    /\ lines_changed > 0
    /\ diff # 0
    /\ diff_errors # <<>>

====
